---------------------------- MODULE Spec2Model ----------------------------
(***************************************************************************)
(* A model of the Sudoku core of src/main.py (find_empty, is_safe,         *)
(* solve_backtracking, count_solutions, generate_full_board, make_puzzle)  *)
(* and of the SudokuApp handlers that use it.                              *)
(*                                                                         *)
(* The source fixes the box side to 3 (a 9x9 grid).  Every definition      *)
(* below is written for a box side BoxSize and a grid of N = BoxSize^2     *)
(* rows, columns and digits, exactly as the source is written for 3 and 9; *)
(* the model is explored with BoxSize = 2 (the 4x4 Sudoku), the largest    *)
(* size whose searches can be enumerated exhaustively.                     *)
(***************************************************************************)
EXTENDS Integers, Sequences, FiniteSets, TLC

\* Side of a box: "3 * (row // 3)" in is_safe; range(9) is range(N).
BoxSize == 2

N == BoxSize * BoxSize

\* range(9): row and column indices.
Idx == 0 .. (N - 1)

\* range(1, 10): the candidate values.
Digits == 1 .. N

\* Values a cell can hold; 0 is an empty cell.
Values == 0 .. N

\* Python's None (find_empty's "no empty cell", SudokuApp.solution at start).
None == << >>

\* [[0] * 9 for _ in range(9)]
EmptyBoard == [r \in Idx |-> [c \in Idx |-> 0]]

\* board[r][c] = v
Put(board, r, c, v) == [board EXCEPT ![r][c] = v]

\* find_empty: the first empty cell in row-major order, or None.
find_empty(board) ==
    LET empties == {k \in 0 .. (N * N - 1) : board[k \div N][k % N] = 0}
    IN  IF empties = {}
        THEN None
        ELSE LET k == CHOOSE x \in empties : \A y \in empties : x <= y
             IN  <<k \div N, k % N>>

\* is_safe: num is in neither the row, the column, nor the box of (row, col).
is_safe(board, row, col, num) ==
    LET box_row == BoxSize * (row \div BoxSize)
        box_col == BoxSize * (col \div BoxSize)
    IN  /\ \A c \in Idx : board[row][c] # num
        /\ \A x \in Idx : board[x][col] # num
        /\ \A r \in box_row .. (box_row + BoxSize - 1) :
             \A c \in box_col .. (box_col + BoxSize - 1) : board[r][c] # num

RECURSIVE solve_backtracking(_)
RECURSIVE solve_loop(_, _, _, _)

\* Mutant of solve_loop: the tentative assignment is not undone after a
\* failed recursive call ("board[r][c] = 0" dropped).
solve_loop_no_undo(board, r, c, num) ==
    IF num > N
    THEN [ret |-> FALSE, board |-> board]
    ELSE IF is_safe(board, r, c, num)
         THEN LET res == solve_backtracking(Put(board, r, c, num))
              IN  IF res.ret
                  THEN res
                  ELSE solve_loop(res.board, r, c, num + 1)
         ELSE solve_loop(board, r, c, num + 1)

\* Mutant of solve_loop: the candidates are tried in decreasing order.
solve_loop_descending(board, r, c, num) ==
    LET cand == N + 1 - num
    IN  IF num > N
        THEN [ret |-> FALSE, board |-> board]
        ELSE IF is_safe(board, r, c, cand)
             THEN LET res == solve_backtracking(Put(board, r, c, cand))
                  IN  IF res.ret
                      THEN res
                      ELSE solve_loop(Put(res.board, r, c, 0), r, c, num + 1)
             ELSE solve_loop(board, r, c, num + 1)

\* The body of solve_backtracking's "for num in range(1, 10)" from num on;
\* the board is mutated in place, so the board after the call is returned
\* with the result.
solve_loop(board, r, c, num) ==
    IF num > N
    THEN [ret |-> FALSE, board |-> board]
    ELSE IF is_safe(board, r, c, num)
         THEN LET res == solve_backtracking(Put(board, r, c, num))
              IN  IF res.ret
                  THEN res
                  ELSE solve_loop(Put(res.board, r, c, 0), r, c, num + 1)
         ELSE solve_loop(board, r, c, num + 1)

\* solve_backtracking(board): [ret |-> the returned bool, board |-> the
\* board as the call leaves it].
solve_backtracking(board) ==
    LET spot == find_empty(board)
    IN  IF spot = None
        THEN [ret |-> TRUE, board |-> board]
        ELSE solve_loop(board, spot[1], spot[2], 1)

RECURSIVE count_solutions(_, _)
RECURSIVE count_loop(_, _, _, _, _, _)

\* Mutant of count_loop: on reaching the limit the loop is left before the
\* cell is reset ("break" moved above "board[r][c] = 0").
count_loop_break_first(board, limit, r, c, num, count) ==
    IF num > N
    THEN [ret |-> count, board |-> board]
    ELSE IF is_safe(board, r, c, num)
         THEN LET res == count_solutions(Put(board, r, c, num), limit)
                  cnt == count + res.ret
              IN  IF cnt >= limit
                  THEN [ret |-> cnt, board |-> res.board]
                  ELSE count_loop(Put(res.board, r, c, 0), limit, r, c,
                                  num + 1, cnt)
         ELSE count_loop(board, limit, r, c, num + 1, count)

\* The body of count_solutions' "for num in range(1, 10)" from num on, with
\* the count accumulated so far in this invocation.
count_loop(board, limit, r, c, num, count) ==
    IF num > N
    THEN [ret |-> count, board |-> board]
    ELSE IF is_safe(board, r, c, num)
         THEN LET res  == count_solutions(Put(board, r, c, num), limit)
                  cnt  == count + res.ret
                  undo == Put(res.board, r, c, 0)
              IN  IF cnt >= limit
                  THEN [ret |-> cnt, board |-> undo]
                  ELSE count_loop(undo, limit, r, c, num + 1, cnt)
         ELSE count_loop(board, limit, r, c, num + 1, count)

\* count_solutions(board, limit): [ret |-> the returned count, board |->
\* the board as the call leaves it].
count_solutions(board, limit) ==
    LET spot == find_empty(board)
    IN  IF spot = None
        THEN [ret |-> 1, board |-> board]
        ELSE count_loop(board, limit, spot[1], spot[2], 1, 0)


(***************************************************************************)
(* The data model of spec section 3, stated without the search code.       *)
(***************************************************************************)

\* The cells of the box with box coordinates (br, bc).
BoxCells(br, bc) ==
    {<<r, c>> : r \in (BoxSize * br) .. (BoxSize * br + BoxSize - 1),
                c \in (BoxSize * bc) .. (BoxSize * bc + BoxSize - 1)}

\* The rows, the columns and the boxes, each as a set of cells.
Units ==
    {{<<r, c>> : c \in Idx} : r \in Idx}
      \cup {{<<r, c>> : r \in Idx} : c \in Idx}
      \cup {BoxCells(br, bc) : br \in 0 .. (BoxSize - 1), bc \in 0 .. (BoxSize - 1)}

\* All cells are assigned and every row, column and box holds each digit.
ValidFull(g) ==
    \A u \in Units : {g[x[1]][x[2]] : x \in u} = Digits

\* No two placed cells of one row, column or box hold the same value.
ConflictFree(g) ==
    \A u \in Units : \A x, y \in u :
        (x # y /\ g[x[1]][x[2]] # 0) => g[x[1]][x[2]] # g[y[1]][y[2]]

\* The permutations of 1..N, as tuples.
Perms == {p \in [1 .. N -> Digits] : \A i, j \in 1 .. N : p[i] = p[j] => i = j}

\* A row given as a tuple, indexed like a board row.
RowOf(p) == [c \in Idx |-> p[c + 1]]

\* The last row of the stack s of rows repeats no value of an earlier row in
\* its column or in its box.
LastRowFits(s) ==
    LET k == Len(s) - 1
    IN  \A r \in 0 .. (k - 1) : \A c, d \in Idx :
            (c = d \/ (r \div BoxSize = k \div BoxSize /\ c \div BoxSize = d \div BoxSize))
                => s[r + 1][c] # s[k + 1][d]

RECURSIVE ValidStacks(_)
\* The stacks of k rows, each a permutation of the digits, in which no column
\* and no box repeats a value.
ValidStacks(k) ==
    IF k = 0
    THEN {<< >>}
    ELSE {t \in {Append(s, RowOf(p)) : s \in ValidStacks(k - 1), p \in Perms} :
            LastRowFits(t)}

\* Every Solution of the data model: the valid full grids.
AllSolutions == {[r \in Idx |-> s[r + 1]] : s \in ValidStacks(N)}

\* The valid completions of g: the Solutions that agree with g on its
\* placed cells.
Completions(g) ==
    {s \in AllSolutions : \A r, c \in Idx : g[r][c] # 0 => s[r][c] = g[r][c]}

\* a comes before b when the cells are compared in row-major order.
LexLess(a, b) ==
    \E k \in 0 .. (N * N - 1) :
        /\ a[k \div N][k % N] < b[k \div N][k % N]
        /\ \A j \in 0 .. (k - 1) : a[j \div N][j % N] = b[j \div N][j % N]

\* The number of empty cells of g.
Holes(g) == Cardinality({x \in Idx \X Idx : g[x[1]][x[2]] = 0})

(***************************************************************************)
(* generate_full_board.  random.shuffle(nums) leaves any permutation in    *)
(* the one list nums that all invocations of fill_cell share, and          *)
(* "for n in nums" reads nums[i] when it reaches position i, so a shuffle  *)
(* made by a deeper invocation changes what the enclosing loop reads next. *)
(* fill_cell is modelled by the set of its possible outcomes over all      *)
(* shuffle results.                                                        *)
(***************************************************************************)

RECURSIVE fill_cell(_, _)
RECURSIVE fill_loop(_, _, _, _)

\* For each candidate n: the pair of n and the outcomes of the recursive
\* call fill_cell(idx + 1) made with n placed at cell idx of board (none
\* when is_safe rejects n).
fill_calls(board, idx) ==
    LET r == idx \div N
        c == idx % N
    IN  {<<n, IF is_safe(board, r, c, n)
              THEN fill_cell(Put(board, r, c, n), idx + 1)
              ELSE {}>> : n \in Digits}

\* The outcomes of fill_cell's "for n in nums" at cell idx from loop
\* position i on.  S holds the states [board, nums] the loop can be in when
\* it reads nums[i]; sub pairs each n with the outcomes of the recursive
\* call made after placing n.
fill_loop(idx, sub, S, i) ==
    IF i > N
    THEN {[ret |-> FALSE, board |-> s.board, nums |-> s.nums] : s \in S}
    ELSE LET r == idx \div N
             c == idx % N
             \* is_safe holds: n is placed and fill_cell(idx + 1) is called
             safe   == {s \in S : is_safe(s.board, r, c, s.nums[i])}
             called == UNION {p[2] : p \in {q \in sub :
                                 q[1] \in {s.nums[i] : s \in safe}}}
             \* "return True": the board stays as the recursive call left it
             done   == {o \in called : o.ret}
             \* the recursive call failed: "board[r][c] = 0", and the loop
             \* goes on with nums as that call left it
             undone == {[board |-> Put(o.board, r, c, 0), nums |-> o.nums] :
                          o \in {x \in called : ~x.ret}}
         IN  done \cup fill_loop(idx, sub, (S \ safe) \cup undone, i + 1)

\* fill_cell(idx) on board: the set of [ret |-> the returned bool, board |->
\* the board as the call leaves it, nums |-> the shared list as the call
\* leaves it], over all results of random.shuffle.  After "return True"
\* nothing reads nums again, so a True outcome carries none.
fill_cell(board, idx) ==
    IF idx = N * N
    THEN {[ret |-> TRUE, board |-> board]}
    ELSE fill_loop(idx, fill_calls(board, idx),
                   {[board |-> board, nums |-> p] : p \in Perms}, 1)

\* generate_full_board(): the boards it can return.  The result of the
\* top-level fill_cell(0) is dropped and the board returned as it is.
generate_full_board == {o.board : o \in fill_cell(EmptyBoard, 0)}

(***************************************************************************)
(* make_puzzle.  random.shuffle(cells) leaves the cells in any order; the  *)
(* order is an argument here.                                              *)
(***************************************************************************)

\* [(r, c) for r in range(9) for c in range(9)]
AllCells == [k \in 1 .. (N * N) |-> <<(k - 1) \div N, (k - 1) % N>>]

RECURSIVE make_loop(_, _, _, _, _)

\* Mutant of make_loop: a removal is kept whatever count_solutions says.
make_loop_unchecked(puzzle, holes, cells, k, removed) ==
    IF k > Len(cells) \/ removed >= holes
    THEN [puzzle |-> puzzle, removed |-> removed, k |-> k]
    ELSE make_loop(Put(puzzle, cells[k][1], cells[k][2], 0), holes, cells,
                   k + 1, removed + 1)

\* Mutant of make_loop: "if removed > holes" for "if removed >= holes".
make_loop_off_by_one(puzzle, holes, cells, k, removed) ==
    IF k > Len(cells) \/ removed > holes
    THEN [puzzle |-> puzzle, removed |-> removed, k |-> k]
    ELSE LET r == cells[k][1]
             c == cells[k][2]
             backup == puzzle[r][c]
             temp == Put(puzzle, r, c, 0)
         IN  IF count_solutions(temp, 2).ret = 1
             THEN make_loop(temp, holes, cells, k + 1, removed + 1)
             ELSE make_loop(Put(temp, r, c, backup), holes, cells, k + 1, removed)

\* make_puzzle's "for r, c in cells" from the k-th cell on: [puzzle |-> the
\* puzzle when the loop ends, removed |-> the count of removals kept, k |->
\* the position the loop ended at (Len(cells) + 1: the cells ran out)].
\* count_solutions works on temp, a copy, so what it does to its board does
\* not reach puzzle.
make_loop(puzzle, holes, cells, k, removed) ==
    IF k > Len(cells) \/ removed >= holes
    THEN [puzzle |-> puzzle, removed |-> removed, k |-> k]
    ELSE LET r == cells[k][1]
             c == cells[k][2]
             backup == puzzle[r][c]
             temp == Put(puzzle, r, c, 0)
         IN  IF count_solutions(temp, 2).ret = 1
             THEN make_loop(temp, holes, cells, k + 1, removed + 1)
             ELSE make_loop(Put(temp, r, c, backup), holes, cells, k + 1, removed)

\* make_puzzle(full, holes) when random.shuffle leaves cells in the given
\* order.
make_puzzle(full, holes, cells) == make_loop(full, holes, cells, 1, 0).puzzle

(***************************************************************************)
(* Inputs of the searches: the canonical solved grid of spec section 8     *)
(* cut after its first k cells (k a multiple of the box side), with up to  *)
(* MaxEdits cells overwritten by any value (an edit may empty a cell or    *)
(* plant a duplicate).                                                     *)
(***************************************************************************)

\* How many cells of a base grid an input may overwrite.
MaxEdits == 1

\* The largest limit count_solutions is called with (the source calls it
\* with 2, the default).
MaxLimit == 3

\* Row i is the first row shifted cyclically, offset to satisfy the boxes.
CanonicalGrid ==
    [r \in Idx |-> [c \in Idx |->
        ((BoxSize * (r % BoxSize) + (r \div BoxSize) + c) % N) + 1]]

\* g with the cells from row-major position k on emptied.
CutAfter(g, k) ==
    [r \in Idx |-> [c \in Idx |-> IF r * N + c < k THEN g[r][c] ELSE 0]]

Bases == {CutAfter(CanonicalGrid, BoxSize * j) : j \in 0 .. (N * BoxSize)}

RECURSIVE Edited(_, _)
\* The grids that differ from a grid of S in at most k overwritten cells.
Edited(S, k) ==
    IF k = 0
    THEN S
    ELSE LET T == Edited(S, k - 1)
         IN  T \cup {Put(g, x[1], x[2], v) : g \in T, x \in Idx \X Idx, v \in Values}

Inputs == Edited(Bases, MaxEdits)

(***************************************************************************)
(* Inputs of make_puzzle: the Solutions that share the first row and the   *)
(* first column of the canonical grid, a number of holes, and an order of  *)
(* the cells as random.shuffle may leave them: any OrderPrefix cells       *)
(* first, the others after them in row-major order.                        *)
(***************************************************************************)

FullBoards ==
    {s \in AllSolutions : \A k \in Idx : /\ s[0][k] = CanonicalGrid[0][k]
                                      /\ s[k][0] = CanonicalGrid[k][0]}

\* The largest target_holes make_puzzle is called with.
MaxHoles == 16

\* How many leading positions of the shuffled cell list are arbitrary.
OrderPrefix == 1

\* The sequences of k distinct cells.
RECURSIVE Leading(_)
Leading(k) ==
    IF k = 0
    THEN {<< >>}
    ELSE {Append(q, x) : q \in Leading(k - 1), x \in Idx \X Idx} \cap
         {q \in Seq(Idx \X Idx) : \A i, j \in 1 .. Len(q) : q[i] = q[j] => i = j}

\* The cells of sequence q that are not in the set done, in q's order.
Without(q, done) == SelectSeq(q, LAMBDA x : x \notin done)

CellOrders ==
    {q \o Without(AllCells, {q[i] : i \in 1 .. Len(q)}) : q \in Leading(OrderPrefix)}

VARIABLES
    pc,      \* which call of the run has been made, or where the call is
    arg,     \* the arguments as passed to the call
    board,   \* the board object the call works on, as the call leaves it
    limit,   \* count_solutions' limit argument
    ret,     \* what the call returned
    nums,    \* generate_full_board's list nums, shared by every fill_cell
    pos,     \* the position "for n in nums" of the traced fill_cell is at
    tried,   \* the candidates the traced fill_cell has read, in order
    text,    \* SudokuApp.grid_cells[r][c].text()
    fixed,   \* SudokuApp.grid_cells[r][c].fixed (and isReadOnly())
    red,     \* whether the style sheet of grid_cells[r][c] colours it red
    solution,\* SudokuApp.solution
    clues,   \* the puzzle as the last generate() wrote it (None: none yet)
    edits,   \* how many cells the user has edited
    gens,    \* how many times generate() has run
    stock    \* the [full, puzzle] pairs generate() can come up with

callVars == <<arg, board, limit, ret>>
fillVars == <<nums, pos, tried>>

\* No fill_cell is traced.
NoFill == nums = None /\ pos = 0 /\ tried = << >>

uiVars == <<text, fixed, red, solution, clues, edits, gens, stock>>

\* No window is open.
NoUI ==
    /\ text = None /\ fixed = None /\ red = None /\ solution = None
    /\ clues = None /\ edits = 0 /\ gens = 0 /\ stock = {}

vars == <<pc, arg, board, limit, ret, nums, pos, tried,
          text, fixed, red, solution, clues, edits, gens, stock>>

(***************************************************************************)
(* SpecSolve: solve_backtracking and count_solutions applied to an input.  *)
(***************************************************************************)

InitSolve ==
    /\ pc = "input"
    /\ arg \in Inputs
    /\ board = arg
    /\ limit = 0
    /\ ret = None
    /\ NoFill
    /\ NoUI

\* solve_backtracking(board)
Solve ==
    /\ pc = "input"
    /\ LET res == solve_backtracking(board)
       IN  /\ board' = res.board
           /\ ret' = res.ret
    /\ pc' = "solved"
    /\ UNCHANGED <<arg, limit, fillVars, uiVars>>

\* count_solutions(board, lim)
Count ==
    /\ pc = "input"
    /\ \E lim \in 1 .. MaxLimit :
         LET res == count_solutions(board, lim)
         IN  /\ board' = res.board
             /\ ret' = res.ret
             /\ limit' = lim
    /\ pc' = "counted"
    /\ UNCHANGED <<arg, fillVars, uiVars>>

NextSolve == Solve \/ Count

SpecSolve == InitSolve /\ [][NextSolve]_vars

(***************************************************************************)
(* SpecGen: generate_full_board().                                         *)
(***************************************************************************)

InitGen ==
    /\ pc = "start"
    /\ arg = None
    /\ board = None
    /\ limit = 0
    /\ ret = None
    /\ NoFill
    /\ NoUI

\* generate_full_board(), under any results of random.shuffle
GenerateFullBoard ==
    /\ pc = "start"
    /\ ret' \in generate_full_board
    /\ pc' = "generated"
    /\ UNCHANGED <<arg, board, limit, fillVars, uiVars>>

NextGen == GenerateFullBoard

SpecGen == InitGen /\ [][NextGen]_vars

(***************************************************************************)
(* SpecCarve: make_puzzle(full, holes) under a given shuffle of the cells. *)
(***************************************************************************)

InitCarve ==
    /\ pc = "full"
    /\ arg \in [full : FullBoards, holes : 0 .. MaxHoles, cells : CellOrders]
    /\ board = arg.full
    /\ limit = 0
    /\ ret = None
    /\ NoFill
    /\ NoUI

\* make_puzzle(full, holes): ret is the puzzle returned, with the count of
\* removals and the position at which the loop over the cells ended.
MakePuzzle ==
    /\ pc = "full"
    /\ ret' = make_loop(arg.full, arg.holes, arg.cells, 1, 0)
    /\ pc' = "carved"
    /\ UNCHANGED <<arg, board, limit, fillVars, uiVars>>

NextCarve == MakePuzzle

SpecCarve == InitCarve /\ [][NextCarve]_vars


(***************************************************************************)
(* SpecFill: one invocation of fill_cell traced through its loop.  The     *)
(* invocations are those of the last band of rows (and fill_cell(81)), on  *)
(* the boards of FullBoards cut after the cells already filled; nums holds *)
(* any order on entry.  A recursive call is one step, with any of its      *)
(* outcomes.                                                               *)
(***************************************************************************)

Invocations ==
    {[board |-> CutAfter(s, k), idx |-> k] :
        s \in FullBoards, k \in (N * (N - BoxSize)) .. (N * N)}

InitFill ==
    /\ pc = "call"
    /\ arg \in Invocations
    /\ board = arg.board
    /\ limit = 0
    /\ ret = None
    /\ nums \in Perms
    /\ pos = 0
    /\ tried = << >>
    /\ NoUI

\* "if idx == 81: return True"
FillEnd ==
    /\ pc = "call"
    /\ arg.idx = N * N
    /\ ret' = TRUE
    /\ pc' = "returned"
    /\ UNCHANGED <<arg, board, limit, fillVars, uiVars>>

\* "random.shuffle(nums)", and the loop starts at the head of nums
FillShuffle ==
    /\ pc = "call"
    /\ arg.idx # N * N
    /\ nums' \in Perms
    /\ pos' = 1
    /\ pc' = "loop"
    /\ UNCHANGED <<callVars, tried, uiVars>>

\* The loop reads nums[pos] and is_safe rejects it.
FillSkip ==
    /\ pc = "loop"
    /\ pos <= N
    /\ ~is_safe(board, arg.idx \div N, arg.idx % N, nums[pos])
    /\ tried' = Append(tried, nums[pos])
    /\ pos' = pos + 1
    /\ UNCHANGED <<pc, callVars, nums, uiVars>>

\* The loop reads nums[pos], places it and calls fill_cell(idx + 1), which
\* returns True: "return True".
FillDone ==
    /\ pc = "loop"
    /\ pos <= N
    /\ LET r == arg.idx \div N
           c == arg.idx % N
       IN  /\ is_safe(board, r, c, nums[pos])
           /\ \E o \in fill_cell(Put(board, r, c, nums[pos]), arg.idx + 1) :
                /\ o.ret
                /\ board' = o.board
    /\ tried' = Append(tried, nums[pos])
    /\ ret' = TRUE
    /\ pc' = "returned"
    /\ UNCHANGED <<arg, limit, nums, pos, uiVars>>

\* The loop reads nums[pos], places it and calls fill_cell(idx + 1), which
\* returns False: "board[r][c] = 0", and the loop goes on with nums as the
\* call left it.
FillUndo ==
    /\ pc = "loop"
    /\ pos <= N
    /\ LET r == arg.idx \div N
           c == arg.idx % N
       IN  /\ is_safe(board, r, c, nums[pos])
           /\ \E o \in fill_cell(Put(board, r, c, nums[pos]), arg.idx + 1) :
                /\ ~o.ret
                /\ board' = Put(o.board, r, c, 0)
                /\ nums' = o.nums
    /\ tried' = Append(tried, nums[pos])
    /\ pos' = pos + 1
    /\ UNCHANGED <<pc, arg, limit, ret, uiVars>>

\* The loop has run out: "return False".
FillFail ==
    /\ pc = "loop"
    /\ pos = N + 1
    /\ ret' = FALSE
    /\ pc' = "returned"
    /\ UNCHANGED <<arg, board, limit, fillVars, uiVars>>

NextFill == FillEnd \/ FillShuffle \/ FillSkip \/ FillDone \/ FillUndo \/ FillFail

SpecFill == InitFill /\ [][NextFill]_vars

(***************************************************************************)
(* SpecUI: a session of SudokuApp.  A cell's text is "" or one digit (the  *)
(* QIntValidator(1, 9) and setMaxLength(1) of Cell).  The message boxes    *)
(* change nothing and are left out.                                        *)
(***************************************************************************)

\* DIFFICULTY (the keys are the Armenian for easy, medium, hard).  The
\* hole counts are those of the source; on a grid of fewer cells than
\* that, make_puzzle goes through all the cells.
DIFFICULTY == [Easy |-> 36, Medium |-> 45, Hard |-> 54]

\* How many times generate() runs in a session.
MaxGenerations == 2

\* str(val) for the digits.
DigitText == SubSeq(<<"1", "2", "3", "4", "5", "6", "7", "8", "9">>, 1, N)

\* What a cell's text can be.
Texts == {""} \cup {DigitText[v] : v \in Digits}

\* "str(val) if val else ''"
TextOf(val) == IF val = 0 THEN "" ELSE DigitText[val]

\* "int(text) if text.isdigit() else 0"
IntOf(t) ==
    IF \E v \in Digits : DigitText[v] = t
    THEN CHOOSE v \in Digits : DigitText[v] = t
    ELSE 0

\* SudokuApp.read_board
read_board == [r \in Idx |-> [c \in Idx |-> IntOf(text[r][c])]]

\* SudokuApp.write_board(b, fixed_mask); fixed_mask None: nothing is fixed.
\* Cell.set_fixed sets the style sheet, white, either way.
write_board(b, fixed_mask) ==
    /\ text' = [r \in Idx |-> [c \in Idx |-> TextOf(b[r][c])]]
    /\ fixed' = [r \in Idx |-> [c \in Idx |->
                    IF fixed_mask # None THEN fixed_mask[r][c] ELSE FALSE]]
    /\ red' = [r \in Idx |-> [c \in Idx |-> FALSE]]

\* The boards generate_full_board() comes up with in a session: its failed
\* outcome and its outcomes among FullBoards.
GeneratedBoards == generate_full_board \cap (FullBoards \cup {EmptyBoard})

\* SudokuApp.__init__: the cells are empty and not fixed.  stock holds what
\* generate() can come up with; it depends on nothing a session changes.
InitUI ==
    /\ pc = "ui"
    /\ arg = None /\ board = None /\ limit = 0 /\ ret = None
    /\ NoFill
    /\ text = [r \in Idx |-> [c \in Idx |-> ""]]
    /\ fixed = [r \in Idx |-> [c \in Idx |-> FALSE]]
    /\ red = [r \in Idx |-> [c \in Idx |-> FALSE]]
    /\ solution = None
    /\ clues = None
    /\ edits = 0
    /\ gens = 0
    /\ stock = {[full |-> f, puzzle |-> make_puzzle(f, DIFFICULTY[d], q)] :
                  f \in GeneratedBoards, d \in DOMAIN DIFFICULTY, q \in CellOrders}

\* SudokuApp.generate
Generate ==
    /\ gens < MaxGenerations
    /\ \E g \in stock :
         LET mask == [r \in Idx |-> [c \in Idx |-> g.puzzle[r][c] # 0]]
         IN  /\ solution' = g.full
             /\ write_board(g.puzzle, mask)
             /\ clues' = g.puzzle
    /\ gens' = gens + 1
    /\ UNCHANGED <<pc, callVars, fillVars, edits, stock>>

\* SudokuApp.solve
SolveClicked ==
    /\ LET res == solve_backtracking(read_board)
       IN  IF res.ret
           THEN write_board(res.board, None)
           ELSE UNCHANGED <<text, fixed, red>>
    /\ UNCHANGED <<pc, callVars, fillVars, solution, clues, edits, gens, stock>>

\* SudokuApp.check: a cell holding a value is coloured red when the value
\* is not safe with the cell itself emptied, white otherwise; an empty cell
\* keeps its style sheet.
CheckClicked ==
    /\ red' = [r \in Idx |-> [c \in Idx |->
                 LET b == read_board
                 IN  IF b[r][c] = 0
                     THEN red[r][c]
                     ELSE ~is_safe(Put(b, r, c, 0), r, c, b[r][c])]]
    /\ UNCHANGED <<pc, callVars, fillVars, text, fixed, solution, clues,
                   edits, gens, stock>>

\* SudokuApp.clear
ClearClicked ==
    /\ text' = [r \in Idx |-> [c \in Idx |->
                  IF ~fixed[r][c] THEN "" ELSE text[r][c]]]
    /\ UNCHANGED <<pc, callVars, fillVars, fixed, red, solution, clues,
                   edits, gens, stock>>

\* The user types into, or empties, a cell that is not read-only.
UserEdit ==
    /\ edits < MaxEdits
    /\ \E r, c \in Idx, t \in Texts :
         /\ ~fixed[r][c]
         /\ t # text[r][c]
         /\ text' = [text EXCEPT ![r][c] = t]
    /\ edits' = edits + 1
    /\ UNCHANGED <<pc, callVars, fillVars, fixed, red, solution, clues,
                   gens, stock>>

NextUI == Generate \/ SolveClicked \/ CheckClicked \/ ClearClicked \/ UserEdit

SpecUI == InitUI /\ [][NextUI]_vars

(***************************************************************************)
(* Claims about solve_backtracking and count_solutions (SpecSolve).        *)
(***************************************************************************)

\* The first empty cell of g has a candidate that passes is_safe, so a
\* search on g makes at least one tentative assignment.
Assigns(g) ==
    /\ find_empty(g) # None
    /\ \E n \in Digits : is_safe(g, find_empty(g)[1], find_empty(g)[2], n)

\* C3: whenever solve_backtracking returns True, whatever the input grid
\* (one with a duplicate among its placed cells included), the grid is fully
\* assigned and every row, column and box holds each digit exactly once.
C3_SolvedIsValid ==
    (pc = "solved" /\ ret) => ValidFull(board)

\* C4: whenever solve_backtracking returns False, the grid is cell for cell
\* the grid that was passed in.
C4_FailureRestores ==
    (pc = "solved" /\ ~ret) => board = arg

\* A failed search that made tentative assignments on a conflict-free grid.
C4_Witness ==
    pc = "solved" /\ ~ret /\ ConflictFree(arg) /\ Assigns(arg) /\ Holes(arg) >= 3

\* C5: on a conflict-free grid count_solutions(g, cap) returns the number
\* of valid completions of g when that is below cap, and cap otherwise.
C5_CountIsCapped ==
    (pc = "counted" /\ ConflictFree(arg)) =>
        LET n == Cardinality(Completions(arg))
        IN  ret = IF n < limit THEN n ELSE limit

\* C7: on a conflict-free grid solve_backtracking returns True exactly when
\* the grid has a valid completion, and then leaves in the grid the
\* completion that comes first in row-major lexicographic order.
C7_FirstCompletion ==
    (pc = "solved" /\ ConflictFree(arg)) =>
        LET comps == Completions(arg)
        IN  IF comps = {}
            THEN ~ret
            ELSE /\ ret
                 /\ board \in comps
                 /\ \A s \in comps \ {board} : LexLess(board, s)

\* A solved conflict-free grid that has several completions.
C7_Witness ==
    pc = "solved" /\ ConflictFree(arg) /\ ret /\ Cardinality(Completions(arg)) >= 2

\* C9: count_solutions leaves the grid as it was passed in, whether it ran
\* to exhaustion or left its loops early on reaching the limit.
C9_CountKeepsGrid ==
    pc = "counted" => board = arg

\* A count that reached the limit on a grid with several empty cells.
C9_Witness ==
    pc = "counted" /\ ret >= limit /\ Holes(arg) >= 3 /\ ConflictFree(arg)

(***************************************************************************)
(* Claims about generate_full_board (SpecGen).                             *)
(***************************************************************************)

\* C2: whatever random.shuffle does, the grid generate_full_board returns
\* has every cell assigned and every row, column and box a permutation of
\* the digits.
C2_GeneratedIsValid ==
    pc = "generated" => ValidFull(ret)

(***************************************************************************)
(* Claims about make_puzzle (SpecCarve).                                   *)
(***************************************************************************)

\* C1: the puzzle make_puzzle returns for a valid full grid has exactly one
\* valid completion, count_solutions(puzzle, 2) returns 1, and every placed
\* cell of the puzzle holds the value of that cell of the full grid.
C1_PuzzleIsUnique ==
    pc = "carved" =>
        /\ Cardinality(Completions(ret.puzzle)) = 1
        /\ count_solutions(ret.puzzle, 2).ret = 1
        /\ \A r, c \in Idx :
              ret.puzzle[r][c] # 0 => ret.puzzle[r][c] = arg.full[r][c]

\* A puzzle with holes for which at least one removal was refused.
C1_Witness ==
    /\ pc = "carved"
    /\ Holes(ret.puzzle) >= N
    /\ Holes(ret.puzzle) < ret.k - 1

\* Emptying any one clue of p leaves a grid with several valid completions.
LocallyMinimal(p) ==
    \A r, c \in Idx :
        p[r][c] # 0 => Cardinality(Completions(Put(p, r, c, 0))) >= 2

\* C10: the puzzle has at most target_holes empty cells (none when
\* target_holes is 0: the full grid is returned), and fewer only when the
\* loop went through all the cells, and then no further clue can be removed.
C10_HolesBounded ==
    pc = "carved" =>
        /\ Holes(ret.puzzle) <= arg.holes
        /\ arg.holes = 0 => ret.puzzle = arg.full
        /\ Holes(ret.puzzle) < arg.holes =>
              /\ ret.k = Len(arg.cells) + 1
              /\ LocallyMinimal(ret.puzzle)

\* A run that went through all the cells without reaching target_holes.
C10_Witness ==
    /\ pc = "carved"
    /\ Holes(ret.puzzle) < arg.holes
    /\ Holes(ret.puzzle) >= N


(***************************************************************************)
(* Claims about fill_cell (SpecFill).                                      *)
(***************************************************************************)

\* C8: an invocation of fill_cell reads no candidate twice, and it returns
\* False only after it has read every digit.
C8_TriesEachOnce ==
    /\ \A j, k \in 1 .. Len(tried) : tried[j] = tried[k] => j = k
    /\ (pc = "returned" /\ ~ret) => {tried[j] : j \in 1 .. Len(tried)} = Digits


(***************************************************************************)
(* Claims about the session (SpecUI).                                      *)
(***************************************************************************)

\* C6: once generate() has run, the cells flagged fixed are exactly the
\* cells that were placed in the puzzle it wrote.
C6_FixedAreTheClues ==
    clues # None => \A r, c \in Idx : fixed[r][c] <=> clues[r][c] # 0

=============================================================================
